---- MODULE Spec2Model ----
(***************************************************************************)
(* A model of the files_manager request handlers:                          *)
(*   UsersController.postNew          (src/controllers/AppController.js)   *)
(*   FilesController.postUpload, getShow, getIndex, putPublish,            *)
(*   putUnpublish, getFile            (src/controllers/FilesController.js) *)
(* The stores (users, files, disk, sessions) and the two bull queues are   *)
(* the state.  A handler step records in `last` the request it served and  *)
(* the response it sent (status 0: the handler's promise rejected and no   *)
(* response was sent); EndRequest then clears `last` before the next step.  *)
(*                                                                         *)
(* Ids are ObjectIds in the program; here the user inserted k-th has id k, *)
(* the file inserted k-th has id MaxUsers + k, BadId is a value that is    *)
(* not a well-formed ObjectId and 0 is "no id" (the root parent, or a      *)
(* request without a valid token).                                         *)
(*                                                                         *)
(* postNew is two steps, split at the await between its lookup and its     *)
(* insert.  The file handlers are one step each: files are never deleted   *)
(* and never change owner or type, so what a handler looked up before an   *)
(* await still holds after it.                                             *)
(***************************************************************************)
EXTENDS Integers, Sequences, FiniteSets, TLC

MaxUsers == 2
MaxFiles == 2
MaxQueue == 1
PageSize == 20

Procs == {1, 2}
Emails == {"a@b.com", "c@d.com"}
Passwords == {"pw"}
Names == {"x.txt"}
Types == {"folder", "file", "image"}
Datas == {"aGVsbG8="}
Missing == ""
BadId == 0 - 1

VARIABLES users, sessions, inflight, files, disk, fileQueue, userQueue, last

vars == <<users, sessions, inflight, files, disk, fileQueue, userQueue, last>>

----------------------------------------------------------------------------
(* Ids *)

UserIds == 1..MaxUsers
FileIds == (MaxUsers + 1)..(MaxUsers + MaxFiles + 1)
RequestIds == FileIds \cup UserIds \cup {BadId}

fileIdAt(k) == MaxUsers + k

\* basicUtils.isValidId: the value has the form of an ObjectId
isValidId(id) == id > 0

\* sha1(password)
sha1(password) == <<"sha1", password>>

\* base64 decoding of the uploaded data
decodeBase64(data) == IF data = "aGVsbG8=" THEN "hello" ELSE Missing

\* mime.contentType(name)
contentType(name) == IF name = "x.txt" THEN "text/plain; charset=utf-8" ELSE "false"

----------------------------------------------------------------------------
(* Responses *)

Reply(status, error, payload) ==
  [status |-> status, error |-> error, payload |-> payload]

\* The handler threw after an await: express answers nothing.
Unanswered == Reply(0, "unhandled rejection", <<>>)

----------------------------------------------------------------------------
(* Identity store and session store *)

\* dbClient.usersCollection.findOne({ email })
findUserByEmail(email) == {u \in DOMAIN users : users[u].email = email}

\* userUtils.getUserIdAndKey: the user id the request's token resolves to
getUserIdAndKey(token) == IF token \in sessions THEN token ELSE 0

\* userUtils.getUser({ _id })
getUser(userId) == userId \in DOMAIN users

----------------------------------------------------------------------------
(* Jobs and events *)

NoJob == [fileId |-> 0, userId |-> 0]

NoBody == [name |-> Missing, type |-> Missing, parentId |-> 0,
           isPublic |-> FALSE, data |-> Missing]

\* What a step did: the request, the response, and the queue job it tried to
\* add (enqueue: "none", "ok" or "failed").
Event(op, token, id, body, query, reply, enqueue, job) ==
  [op |-> op, token |-> token, id |-> id, body |-> body, query |-> query,
   reply |-> reply, enqueue |-> enqueue, job |-> job]

NoQuery == [parentId |-> Missing, page |-> Missing, size |-> 0]

Idle == [pc |-> "idle", email |-> Missing, password |-> Missing]

NoEvent == Event("idle", 0, 0, NoBody, NoQuery, Reply(0, Missing, <<>>), "none", NoJob)

\* The state after construction: empty stores, nothing in flight.
InitUsers ==
  /\ users = <<>>
  /\ sessions = {}
  /\ inflight = [p \in Procs |-> Idle]
  /\ files = <<>>
  /\ disk = <<>>
  /\ fileQueue = <<>>
  /\ userQueue = <<>>
  /\ last = NoEvent

\* The state after two registrations (postNew) and two sign-ins (getConnect).
Init ==
  /\ users = <<[email |-> "a@b.com", password |-> sha1("pw")],
               [email |-> "c@d.com", password |-> sha1("pw")]>>
  /\ sessions = {1, 2}
  /\ inflight = [p \in Procs |-> Idle]
  /\ files = <<>>
  /\ disk = <<>>
  /\ fileQueue = <<>>
  /\ userQueue = <<>>
  /\ last = NoEvent

\* The request is over: its response was sent, or its promise rejected.
EndRequest ==
  /\ last # NoEvent
  /\ last' = NoEvent
  /\ UNCHANGED <<users, sessions, inflight, files, disk, fileQueue, userQueue>>

----------------------------------------------------------------------------
(* UsersController.postNew.  The handler awaits findOne and then insertOne:  *)
(* another request may run between the two, so it is two steps per request. *)

\* lines 65-79: the checks up to the lookup of the email
postNewCheck(email, password) ==
  IF email = Missing THEN "Missing email"
  ELSE IF password = Missing THEN "Missing password"
  ELSE IF findUserByEmail(email) # {} THEN "Already exist"
  ELSE Missing

PostNewBegin(p, email, password) ==
  /\ last = NoEvent
  /\ inflight[p].pc = "idle"
  /\ LET err == postNewCheck(email, password) IN
       IF err # Missing
       THEN /\ inflight' = inflight
            /\ last' = Event("postNew", 0, 0, [NoBody EXCEPT !.name = email], NoQuery,
                             Reply(400, err, <<>>), "none", NoJob)
       ELSE /\ inflight' = [inflight EXCEPT ![p] =
                              [pc |-> "insert", email |-> email, password |-> password]]
            /\ last' = Event("postNew.findOne", 0, 0, [NoBody EXCEPT !.name = email],
                             NoQuery, Reply(0, "pending", <<>>), "none", NoJob)
  /\ UNCHANGED <<users, sessions, files, disk, fileQueue, userQueue>>

\* dbClient.usersCollection.insertOne: the store appends the document
insertUser(doc) == Append(users, doc)

\* lines 81-109: hash, insert, enqueue the welcome job, answer
PostNewInsert(p, insertOk, addOk) ==
  /\ last = NoEvent
  /\ inflight[p].pc = "insert"
  /\ Len(userQueue) < MaxQueue
  /\ insertOk => Len(users) < MaxUsers
  /\ LET email == inflight[p].email
         doc == [email |-> email, password |-> sha1(inflight[p].password)]
         newId == Len(users) + 1
         job == IF insertOk THEN [fileId |-> 0, userId |-> newId] ELSE NoJob
         reply == IF ~addOk THEN Unanswered
                  ELSE IF ~insertOk THEN Reply(500, "Error creating user.", <<>>)
                  ELSE Reply(201, Missing, <<[id |-> newId, email |-> email]>>)
     IN /\ users' = IF insertOk THEN insertUser(doc) ELSE users
        /\ userQueue' = IF addOk THEN Append(userQueue, job) ELSE userQueue
        /\ last' = Event("postNew", 0, 0, [NoBody EXCEPT !.name = email], NoQuery, reply,
                         IF addOk THEN "ok" ELSE "failed", job)
  /\ inflight' = [inflight EXCEPT ![p] = Idle]
  /\ UNCHANGED <<sessions, files, disk, fileQueue>>

----------------------------------------------------------------------------
(* Collaborators outside the controllers: sign-in, sign-out, the workers.    *)

\* AuthController.getConnect: a token for the user the credentials match
GetConnect(email, password) ==
  /\ last = NoEvent
  /\ LET match == {u \in DOMAIN users :
                     users[u].email = email /\ users[u].password = sha1(password)}
         u == IF match = {} THEN 0 ELSE CHOOSE x \in match : \A y \in match : x <= y
     IN /\ sessions' = IF u = 0 THEN sessions ELSE sessions \cup {u}
        /\ last' = Event("getConnect", u, 0, NoBody, NoQuery,
                         IF u = 0 THEN Reply(401, "Unauthorized", <<>>)
                         ELSE Reply(200, Missing, <<>>), "none", NoJob)
  /\ UNCHANGED <<users, inflight, files, disk, fileQueue, userQueue>>

\* AuthController.getDisconnect: the token is deleted
GetDisconnect(token) ==
  /\ last = NoEvent
  /\ token \in sessions
  /\ sessions' = sessions \ {token}
  /\ last' = Event("getDisconnect", token, 0, NoBody, NoQuery, Reply(204, Missing, <<>>),
                   "none", NoJob)
  /\ UNCHANGED <<users, inflight, files, disk, fileQueue, userQueue>>

\* The queue workers take the oldest job of a queue.
ProcessFileJob ==
  /\ last = NoEvent
  /\ fileQueue # <<>>
  /\ fileQueue' = Tail(fileQueue)
  /\ last' = Event("worker", 0, 0, NoBody, NoQuery, Reply(0, Missing, <<>>), "none", NoJob)
  /\ UNCHANGED <<users, sessions, inflight, files, disk, userQueue>>

ProcessUserJob ==
  /\ last = NoEvent
  /\ userQueue # <<>>
  /\ userQueue' = Tail(userQueue)
  /\ last' = Event("worker", 0, 0, NoBody, NoQuery, Reply(0, Missing, <<>>), "none", NoJob)
  /\ UNCHANGED <<users, sessions, inflight, files, disk, fileQueue>>

----------------------------------------------------------------------------
(* File metadata store, content store (utils/file) *)

\* fileUtils.getFile({ _id }): the files with that id (none or one)
getFile(fileId) == {k \in DOMAIN files : files[k].id = fileId}

\* fileUtils.getFile({ _id, userId })
getFileOfUser(fileId, userId) ==
  {k \in DOMAIN files : files[k].id = fileId /\ files[k].userId = userId}

\* fileUtils.processFile: the document as presented, without its localPath
processFile(doc) ==
  [id |-> doc.id, userId |-> doc.userId, name |-> doc.name, type |-> doc.type,
   isPublic |-> doc.isPublic, parentId |-> doc.parentId]

isFolder(fileId) == \E k \in getFile(fileId) : files[k].type = "folder"

\* fileUtils.validateBody: the rules in order, the first failure wins
validateBody(body) ==
  IF body.name = Missing THEN "Missing name"
  ELSE IF body.type \notin Types THEN "Missing type"
  ELSE IF body.type # "folder" /\ body.data = Missing THEN "Missing data"
  ELSE IF body.parentId # 0 /\ ~isFolder(body.parentId) THEN "Parent not found"
  ELSE Missing

\* fileUtils.saveFile: the content is written first (never for a folder), then
\* the metadata record; outcome is what the disk and the database let happen.
saveFile(userId, fileParams, outcome) ==
  LET hasContent == fileParams.type # "folder"
      written == hasContent /\ outcome # "contentFail"
      stored == outcome = "ok"
      newFile == [id |-> fileIdAt(Len(files) + 1), userId |-> userId,
                  name |-> fileParams.name, type |-> fileParams.type,
                  isPublic |-> fileParams.isPublic, parentId |-> fileParams.parentId,
                  localPath |-> IF hasContent THEN Len(disk) + 1 ELSE 0]
  IN [error |-> IF stored THEN Missing ELSE "Storage error",
      code |-> IF stored THEN 201 ELSE 500,
      newFile |-> newFile,
      files |-> IF stored THEN Append(files, newFile) ELSE files,
      disk |-> IF written THEN Append(disk, decodeBase64(fileParams.data)) ELSE disk]

----------------------------------------------------------------------------
(* FilesController.postUpload *)

\* Mutant: the validation error is not acted on.
postUploadRejects_Never(validationError) == FALSE

\* line 54: a validation error ends the request
postUploadRejects(validationError) == validationError # Missing

\* Mutant: the type test names the wrong type.
postUploadEnqueues_File(type) == type = "file"

\* line 75: only an image gets a thumbnail job
postUploadEnqueues(type) == type = "image"

\* lines 76-79: the job of the new file
thumbnailJob(newFile) == [fileId |-> newFile.id, userId |-> newFile.userId]

\* lines 33-84.  The result: the reply, the stores after the request, and the
\* job the handler tried to add.  Lines 41-43 never run: past line 37 the
\* userId is a valid id, so !userId is false.
postUpload(token, body, outcome, addOk) ==
  LET userId == getUserIdAndKey(token)
      same == [reply |-> Unanswered, files |-> files, disk |-> disk,
               fileQueue |-> fileQueue, enqueue |-> "none", job |-> NoJob]
      validationError == validateBody(body)
      saved == saveFile(userId, body, outcome)
      added(job) == IF addOk THEN Append(fileQueue, job) ELSE fileQueue
      tried == IF addOk THEN "ok" ELSE "failed"
  IN IF ~isValidId(userId)
       THEN [same EXCEPT !.reply = Reply(401, "Unauthorized", <<>>)]
     ELSE IF ~getUser(userId)
       THEN [same EXCEPT !.reply = Reply(401, "Unauthorized", <<>>)]
     ELSE IF postUploadRejects(validationError)
       THEN [same EXCEPT !.reply = Reply(400, validationError, <<>>)]
     ELSE IF body.parentId # 0 /\ ~isValidId(body.parentId)
       THEN [same EXCEPT !.reply = Reply(400, "Parent not found", <<>>)]
     ELSE IF saved.error # Missing
       THEN IF body.type = "image"
            THEN [reply |-> IF addOk THEN Reply(saved.code, saved.error, <<>>) ELSE Unanswered,
                  files |-> saved.files, disk |-> saved.disk,
                  fileQueue |-> added([fileId |-> 0, userId |-> userId]),
                  enqueue |-> tried, job |-> [fileId |-> 0, userId |-> userId]]
            ELSE [reply |-> Reply(saved.code, saved.error, <<>>),
                  files |-> saved.files, disk |-> saved.disk, fileQueue |-> fileQueue,
                  enqueue |-> "none", job |-> NoJob]
     ELSE IF postUploadEnqueues(body.type)
       THEN [reply |-> IF addOk THEN Reply(201, Missing, <<processFile(saved.newFile)>>)
                       ELSE Unanswered,
             files |-> saved.files, disk |-> saved.disk,
             fileQueue |-> added(thumbnailJob(saved.newFile)),
             enqueue |-> tried, job |-> thumbnailJob(saved.newFile)]
     ELSE [reply |-> Reply(201, Missing, <<processFile(saved.newFile)>>),
           files |-> saved.files, disk |-> saved.disk, fileQueue |-> fileQueue,
           enqueue |-> "none", job |-> NoJob]

PostUpload(token, body, outcome, addOk) ==
  LET r == postUpload(token, body, outcome, addOk) IN
  /\ last = NoEvent
  /\ Len(r.files) <= MaxFiles
  /\ Len(r.disk) <= MaxFiles
  /\ Len(r.fileQueue) <= MaxQueue
  /\ files' = r.files
  /\ disk' = r.disk
  /\ fileQueue' = r.fileQueue
  /\ last' = Event("postUpload", token, 0, body, NoQuery, r.reply, r.enqueue, r.job)
  /\ UNCHANGED <<users, sessions, inflight, userQueue>>

----------------------------------------------------------------------------
(* FilesController.getShow *)

\* Mutant: the lookup forgets the userId filter.
getShowLookup_ByIdOnly(fileId, userId) == getFile(fileId)

\* lines 108-111: the lookup is scoped to the requester
getShowLookup(fileId, userId) == getFileOfUser(fileId, userId)

\* lines 93-118
getShow(token, fileId) ==
  LET userId == getUserIdAndKey(token)
      result == getShowLookup(fileId, userId)
  IN IF ~getUser(userId) THEN Reply(401, "Unauthorized", <<>>)
     ELSE IF ~isValidId(fileId) \/ ~isValidId(userId) THEN Reply(404, "Not found", <<>>)
     ELSE IF result = {} THEN Reply(404, "Not found", <<>>)
     ELSE Reply(200, Missing, <<processFile(files[CHOOSE k \in result : TRUE])>>)

GetShow(token, fileId) ==
  /\ last = NoEvent
  /\ last' = Event("getShow", token, fileId, NoBody, NoQuery, getShow(token, fileId),
                   "none", NoJob)
  /\ UNCHANGED <<users, sessions, inflight, files, disk, fileQueue, userQueue>>

----------------------------------------------------------------------------
(* FilesController.getIndex *)

PageNumbers == (0 - 1)..2

\* Number(request.query.page): a number, or NaN
NumberOf(s) ==
  IF \E n \in PageNumbers : ToString(n) = s
  THEN [nan |-> FALSE, val |-> CHOOSE n \in PageNumbers : ToString(n) = s]
  ELSE [nan |-> TRUE, val |-> 0]

\* lines 138-139: Number(page) || 0
pageOf(pageQuery) ==
  LET n == NumberOf(pageQuery) IN IF n.nan \/ n.val = 0 THEN 0 ELSE n.val

\* ObjectId(string); BadId when the string is no ObjectId
objectIdOf(s) ==
  IF \E i \in FileIds : ToString(i) = s
  THEN CHOOSE i \in FileIds : ToString(i) = s
  ELSE BadId

\* lines 135-136: a missing parentId is '0', and '0' is the number 0
parentOf(parentQuery) ==
  IF parentQuery = Missing \/ parentQuery = "0" THEN 0 ELSE objectIdOf(parentQuery)

Min(a, b) == IF a < b THEN a ELSE b

\* fileUtils.getFilesOfParentId(pipeline): $match, $skip, $limit in the store's
\* order; the database refuses a negative $skip
getFilesOfParentId(matchParent, skip, limit) ==
  LET matched == SelectSeq(files, LAMBDA f : f.parentId = matchParent)
  IN IF skip < 0 THEN [error |-> TRUE, docs |-> <<>>]
     ELSE [error |-> FALSE,
           docs |-> SubSeq(matched, skip + 1, Min(skip + limit, Len(matched)))]

\* lines 151-155: the pipeline matches on the parent alone
getIndexPipeline(parentId, page, userId) ==
  getFilesOfParentId(parentId, page * PageSize, PageSize)

\* lines 128-168
getIndex(token, parentQuery, pageQuery) ==
  LET userId == getUserIdAndKey(token)
      parentId == parentOf(parentQuery)
      page == pageOf(pageQuery)
      cursor == getIndexPipeline(parentId, page, userId)
  IN IF ~getUser(userId) THEN Reply(401, "Unauthorized", <<>>)
     ELSE IF parentId # 0 /\ ~isValidId(parentId) THEN Reply(401, "Unauthorized", <<>>)
     ELSE IF parentId # 0 /\ ~isFolder(parentId) THEN Reply(200, Missing, <<>>)
     ELSE IF cursor.error THEN Unanswered
     ELSE Reply(200, Missing, [k \in DOMAIN cursor.docs |-> processFile(cursor.docs[k])])

GetIndex(token, parentQuery, pageQuery) ==
  /\ last = NoEvent
  /\ last' = Event("getIndex", token, 0, NoBody,
                   [parentId |-> parentQuery, page |-> pageQuery, size |-> 0],
                   getIndex(token, parentQuery, pageQuery), "none", NoJob)
  /\ UNCHANGED <<users, sessions, inflight, files, disk, fileQueue, userQueue>>

----------------------------------------------------------------------------
(* FilesController.putPublish, putUnpublish *)

\* Mutant: the file is looked up by its id alone.
updateVisibilityTarget_ByIdOnly(fileId, userId) == getFile(fileId)

\* updateVisibility(id, owner, isPublic) finds the file only for its owner
updateVisibilityTarget(fileId, userId) == getFileOfUser(fileId, userId)

\* fileUtils.publishUnpublish: authenticate, update the owner's file, and for
\* an image hand a thumbnail job to the dispatcher (a failure to enqueue is
\* swallowed)
publishUnpublish(token, fileId, setPublish, addOk) ==
  LET userId == getUserIdAndKey(token)
      same == [files |-> files, fileQueue |-> fileQueue, enqueue |-> "none", job |-> NoJob]
      found == updateVisibilityTarget(fileId, userId)
      k == CHOOSE x \in found : TRUE
      updated == [files[k] EXCEPT !.isPublic = setPublish]
      job == [fileId |-> updated.id, userId |-> updated.userId]
  IN IF ~isValidId(userId) \/ ~getUser(userId)
       THEN [error |-> "Unauthorized", code |-> 401, updatedFile |-> <<>>] @@ same
     ELSE IF ~isValidId(fileId) \/ found = {}
       THEN [error |-> "Not found", code |-> 404, updatedFile |-> <<>>] @@ same
     ELSE [error |-> Missing, code |-> 200, updatedFile |-> <<processFile(updated)>>,
           files |-> [files EXCEPT ![k] = updated],
           fileQueue |-> IF updated.type = "image" /\ addOk
                         THEN Append(fileQueue, job) ELSE fileQueue,
           enqueue |-> IF updated.type # "image" THEN "none"
                       ELSE IF addOk THEN "ok" ELSE "failed",
           job |-> IF updated.type = "image" THEN job ELSE NoJob]

\* lines 177-186 and 195-204: the outcome of publishUnpublish is the response
putPublishReply(r) ==
  IF r.error # Missing THEN Reply(r.code, r.error, <<>>)
  ELSE Reply(r.code, Missing, r.updatedFile)

PutPublish(token, fileId, addOk) ==
  LET r == publishUnpublish(token, fileId, TRUE, addOk) IN
  /\ last = NoEvent
  /\ Len(r.fileQueue) <= MaxQueue
  /\ files' = r.files
  /\ fileQueue' = r.fileQueue
  /\ last' = Event("putPublish", token, fileId, NoBody, NoQuery, putPublishReply(r),
                   r.enqueue, r.job)
  /\ UNCHANGED <<users, sessions, inflight, disk, userQueue>>

PutUnpublish(token, fileId, addOk) ==
  LET r == publishUnpublish(token, fileId, FALSE, addOk) IN
  /\ last = NoEvent
  /\ Len(r.fileQueue) <= MaxQueue
  /\ files' = r.files
  /\ fileQueue' = r.fileQueue
  /\ last' = Event("putUnpublish", token, fileId, NoBody, NoQuery, putPublishReply(r),
                   r.enqueue, r.job)
  /\ UNCHANGED <<users, sessions, inflight, disk, userQueue>>

----------------------------------------------------------------------------
(* FilesController.getFile *)

\* fileUtils.isOwnerAndPublic: the file is public, or the requester owns it
isOwnerAndPublic(file, userId) == file.isPublic \/ file.userId = userId

\* Mutant: only the missing file is refused.
getFileDenied_MissingOnly(found, userId) == found = {}

\* line 228: no file, or a file the requester may not read
getFileDenied(found, userId) ==
  found = {} \/ \E k \in found : ~isOwnerAndPublic(files[k], userId)

\* fileUtils.getFileData: the bytes at localPath, or at the path of the size
\* variant, which exists once a worker has made it
getFileData(file, size, variantExists) ==
  IF file.localPath \notin DOMAIN disk \/ (size # 0 /\ ~variantExists)
  THEN [error |-> "Not found", code |-> 404, data |-> Missing]
  ELSE [error |-> Missing, code |-> 200, data |-> disk[file.localPath]]

\* lines 214-243
getFileContent(token, fileId, size, variantExists) ==
  LET userId == getUserIdAndKey(token)
      found == getFile(fileId)
      file == files[CHOOSE k \in found : TRUE]
      r == getFileData(file, size, variantExists)
  IN IF ~isValidId(fileId) THEN Reply(404, "Not found", <<>>)
     ELSE IF getFileDenied(found, userId) THEN Reply(404, "Not found", <<>>)
     ELSE IF file.type = "folder" THEN Reply(400, "A folder doesn't have content", <<>>)
     ELSE IF r.error # Missing THEN Reply(r.code, r.error, <<>>)
     ELSE Reply(200, Missing, <<[data |-> r.data, contentType |-> contentType(file.name)]>>)

GetFile(token, fileId, size, variantExists) ==
  /\ last = NoEvent
  /\ last' = Event("getFile", token, fileId, NoBody,
                   [parentId |-> Missing, page |-> Missing, size |-> size],
                   getFileContent(token, fileId, size, variantExists), "none", NoJob)
  /\ UNCHANGED <<users, sessions, inflight, files, disk, fileQueue, userQueue>>

----------------------------------------------------------------------------
(* Requests *)

Tokens == UserIds \cup {0}

Sizes == {0, 500}

PageQueries == {Missing, "abc", "-1", "1"}

ParentQueries == {Missing, "0", "bad"} \cup {ToString(i) : i \in FileIds}

AllBodies ==
  [name : Names \cup {Missing}, type : Types \cup {"link"},
   parentId : {0, BadId} \cup FileIds, isPublic : BOOLEAN, data : Datas \cup {Missing}]

\* Well-formed bodies with any parent, and bodies with a missing or bad field.
Bodies ==
  {b \in AllBodies :
     /\ b.type = "folder" => b.data = Missing
     /\ (b.name = Missing \/ b.type = "link") => b.parentId = 0 /\ ~b.isPublic
     /\ (b.type # "folder" /\ b.data = Missing) => ~b.isPublic}

NextUsers ==
  \/ \E p \in Procs, email \in Emails \cup {Missing}, password \in Passwords \cup {Missing} :
       PostNewBegin(p, email, password)
  \/ \E p \in Procs, insertOk \in BOOLEAN, addOk \in BOOLEAN : PostNewInsert(p, insertOk, addOk)
  \/ \E email \in Emails, password \in Passwords : GetConnect(email, password)
  \/ \E token \in UserIds : GetDisconnect(token)
  \/ ProcessUserJob
  \/ EndRequest

Next ==
  \/ \E token \in Tokens, body \in Bodies,
        outcome \in {"ok", "contentFail", "metaFail"}, addOk \in BOOLEAN :
       PostUpload(token, body, outcome, addOk)
  \/ \E token \in Tokens, fileId \in FileIds \cup {BadId} : GetShow(token, fileId)
  \/ \E token \in Tokens, parentQuery \in ParentQueries, pageQuery \in PageQueries :
       GetIndex(token, parentQuery, pageQuery)
  \/ \E token \in Tokens, fileId \in FileIds \cup {BadId}, addOk \in BOOLEAN :
       PutPublish(token, fileId, addOk)
  \/ \E token \in Tokens, fileId \in FileIds \cup {BadId}, addOk \in BOOLEAN :
       PutUnpublish(token, fileId, addOk)
  \/ \E token \in Tokens, fileId \in FileIds \cup {BadId}, size \in Sizes,
        variantExists \in BOOLEAN :
       GetFile(token, fileId, size, variantExists)
  \/ ProcessFileJob
  \/ EndRequest

\* The file service, two users registered.
Spec == Init /\ [][Next]_vars

\* Registration and sign-in, from the empty stores.
SpecUsers == InitUsers /\ [][NextUsers]_vars

----------------------------------------------------------------------------
(* Claims *)

Requester == IF last.token \in sessions THEN last.token ELSE 0

NotFound == [status |-> 404, error |-> "Not found", payload |-> <<>>]

FilesWithId(id) == {k \in DOMAIN files : files[k].id = id}

\* An id of the right form that no file ever gets.
UnusedFileId == MaxUsers + MaxFiles + 1

PublishOps == {"putPublish", "putUnpublish"}

\* C1: getFile returns content only when the file is public at that moment or
\* the requester owns it; for a missing file, or a private file requested by
\* anyone but its owner, the answer is 404 'Not found'.
C1_GetFilePublicOrOwner ==
  last.op = "getFile" =>
    LET readable == \E k \in FilesWithId(last.id) :
                      files[k].isPublic \/ files[k].userId = Requester
    IN /\ last.reply.status = 200 => readable
       /\ ~readable => last.reply = NotFound

\* A requester who is not the owner got the content of a published file.
C1_Witness ==
  /\ last.op = "getFile"
  /\ last.reply.status = 200
  /\ \E k \in FilesWithId(last.id) : files[k].isPublic /\ files[k].userId # Requester

\* C2: every file getIndex returns is owned by the requester.
C2_IndexOwnerOnly ==
  last.op = "getIndex" =>
    \A i \in DOMAIN last.reply.payload : last.reply.payload[i].userId = Requester

\* C3: for an authenticated requester, getShow of a file owned by another user
\* (public or private) answers 404 'Not found', the very response getShow gives
\* for an id that matches no file.
C3_GetShowIsolation ==
  (/\ last.op = "getShow"
   /\ Requester \in DOMAIN users
   /\ \E k \in FilesWithId(last.id) : files[k].userId # Requester)
  => /\ last.reply = NotFound
     /\ last.reply = getShow(last.token, UnusedFileId)

\* getShow was asked for another user's public file.
C3_Witness ==
  /\ last.op = "getShow"
  /\ Requester \in DOMAIN users
  /\ \E k \in FilesWithId(last.id) : files[k].userId # Requester /\ files[k].isPublic
  /\ last.reply.status = 404

\* C4: the identity store never holds two users with the same email.
C4_EmailUnique ==
  \A i, j \in DOMAIN users : i # j => users[i].email # users[j].email

ResolvesToFolder(fs, id) ==
  \E k \in DOMAIN fs : fs[k].id = id /\ fs[k].type = "folder"

HierarchyOk ==
  \A k \in DOMAIN files : files[k].parentId = 0 \/ ResolvesToFolder(files, files[k].parentId)

WellFormedBody(body) ==
  /\ body.name # Missing
  /\ body.type \in Types
  /\ body.type # "folder" => body.data # Missing

ParentRejected ==
  (/\ last'.op = "postUpload"
   /\ getUserIdAndKey(last'.token) \in DOMAIN users
   /\ WellFormedBody(last'.body)
   /\ last'.body.parentId # 0
   /\ ~ResolvesToFolder(files, last'.body.parentId))
  => /\ last'.reply = [status |-> 400, error |-> "Parent not found", payload |-> <<>>]
     /\ files' = files
     /\ disk' = disk

\* C5: every file's parentId is 0 or the id of an existing folder, and an
\* authenticated, otherwise well-formed postUpload whose non-zero parentId is
\* no existing folder answers 'Parent not found' and leaves the metadata store
\* and the disk as they were.
C5_Hierarchy == []HierarchyOk /\ [][ParentRejected]_vars

\* A file sits in a folder, and an upload into a parent that is no folder was
\* just refused.
C5_Witness ==
  /\ \E k \in DOMAIN files : files[k].parentId # 0
  /\ last.op = "postUpload"
  /\ WellFormedBody(last.body)
  /\ last.body.parentId \in FileIds
  /\ last.reply.error = "Parent not found"

\* C6: a step changes the isPublic of an existing file only if it is a
\* putPublish or putUnpublish of that file by its owner, answered 200; a
\* putPublish or putUnpublish by anyone else is answered with an error and
\* changes no file; no step removes a file.
C6_IsPublicFrame ==
  [][/\ Len(files') >= Len(files)
     /\ \A k \in DOMAIN files :
          files'[k].isPublic # files[k].isPublic =>
            /\ last'.op \in PublishOps
            /\ last'.id = files[k].id
            /\ getUserIdAndKey(last'.token) = files[k].userId
            /\ last'.reply.status = 200
     /\ (/\ last'.op \in PublishOps
         /\ ~\E k \in DOMAIN files :
               files[k].id = last'.id /\ files[k].userId = getUserIdAndKey(last'.token))
        => /\ last'.reply.status \in {401, 404}
           /\ files' = files]_vars

\* A user who is not the owner asked to publish a private file and was refused.
C6_Witness ==
  /\ last.op = "putPublish"
  /\ Requester \in DOMAIN users
  /\ \E k \in FilesWithId(last.id) : files[k].userId # Requester /\ ~files[k].isPublic
  /\ last.reply.status = 404

\* C7: for an authenticated requester, getIndex with a non-zero parentId that
\* is no existing folder answers 200 with an empty list.
C7_IndexMissIsEmpty ==
  (/\ last.op = "getIndex"
   /\ Requester \in DOMAIN users
   /\ last.query.parentId \notin {Missing, "0"}
   /\ ~\E k \in DOMAIN files :
         ToString(files[k].id) = last.query.parentId /\ files[k].type = "folder")
  => last.reply = [status |-> 200, error |-> Missing, payload |-> <<>>]

ClaimedPage(pageQuery) ==
  IF \E n \in 0..2 : ToString(n) = pageQuery
  THEN CHOOSE n \in 0..2 : ToString(n) = pageQuery
  ELSE 0

\* C8: for an authenticated requester listing the root, getIndex answers 200
\* with the root's children at positions 20*p to 20*p+19, p being the page,
\* or 0 for a missing, non-numeric or negative page.
C8_Pagination ==
  (/\ last.op = "getIndex"
   /\ Requester \in DOMAIN users
   /\ last.query.parentId \in {Missing, "0"})
  => LET children == SelectSeq(files, LAMBDA f : f.parentId = 0)
         p == ClaimedPage(last.query.page)
         from == PageSize * p + 1
         to == IF PageSize * p + PageSize < Len(children)
               THEN PageSize * p + PageSize ELSE Len(children)
         slice == SubSeq(children, from, to)
     IN /\ last.reply.status = 200
        /\ last.reply.payload = [k \in DOMAIN slice |-> processFile(slice[k])]
        /\ Len(last.reply.payload) <= PageSize

\* C9: when the enqueue of the job of a saved image (or of an inserted user)
\* fails, the request is still answered 201.
C9_EnqueueFailureSwallowed ==
  last.enqueue = "failed" =>
    /\ (last.op = "postUpload" /\ FilesWithId(last.job.fileId) # {})
         => last.reply.status = 201
    /\ (last.op = "postNew" /\ last.job.userId \in DOMAIN users)
         => last.reply.status = 201

ThumbnailOf(file) == [fileId |-> file.id, userId |-> file.userId]

Enqueued(job) ==
  /\ last'.job = job
  /\ last'.enqueue # "none"
  /\ last'.enqueue = "ok" => fileQueue' = Append(fileQueue, job)

====
